---- MODULE Spec2Model ----
(***************************************************************************)
(* Notification service: the submission use case, the notification store   *)
(* (Django ORM repository inside an atomic unit of work) and the dispatch   *)
(* task send_notifications, run by any number of concurrent workers.        *)
(*                                                                         *)
(* The store is a table of rows in the order of their INSERT (primary key  *)
(* and created_at).  A row is seen by other transactions from the commit   *)
(* of the request that inserted it.  A worker's transaction holds row      *)
(* locks (select_for_update, UPDATE) until it commits or rolls back; what  *)
(* it wrote is in the table from its commit on.                            *)
(***************************************************************************)
EXTENDS Integers, Sequences, FiniteSets, TLC

(* ---------------------------------------------------------------------- *)
(* Bounds of the model                                                     *)
(* ---------------------------------------------------------------------- *)
NumWorkers == 2
NumClients == 2
MaxDelivered == 2

(* range(3) of the retry loop *)
MaxAttempts == 3

Workers == 1..NumWorkers
Clients == 1..NumClients

(* ---------------------------------------------------------------------- *)
(* Domain                                                                  *)
(* ---------------------------------------------------------------------- *)
None == "none"

NotificationType == {"email", "sms", "push", "telegram"}

NotificationStatus == {"pending", "sent", "failed"}

(* Notification entity: the fields of the dataclass *)
Notification(uuid, user, title, text, type, status) ==
  [uuid |-> uuid, user_uuid |-> user, title |-> title, text |-> text,
   type |-> type, status |-> status]

(* notification_channels as a map over every channel type: Absent marks a  *)
(* key that is not in the dict, "" an address that is present but empty.   *)
Absent == "-"

Channels(m) ==
  [t \in NotificationType |-> IF t \in DOMAIN m THEN m[t] ELSE Absent]

NoChannels == [t \in NotificationType |-> Absent]

UserNotificationsSettings(channels, preferred) ==
  [notification_channels |-> channels,
   preferred_notification_channel |-> preferred]

(* a Keycloak attribute value as it is: the list ['<type>'] *)
AsList(t) ==
  CASE t = "email" -> "['email']"
    [] t = "sms" -> "['sms']"
    [] t = "push" -> "['push']"
    [] t = "telegram" -> "['telegram']"

(* attributes.get("preferred_notification_channel"): the list, not its     *)
(* first element                                                           *)
ListPreferences == {AsList(t) : t \in NotificationType}

(* a value that can be an element of a set: a list cannot (TypeError)      *)
Hashable(preferred) == preferred \notin ListPreferences

(* The user directory: user -> UserNotificationsSettings.  u1 and u2 are   *)
(* the two users of the local provider.  The others are users as the       *)
(* Keycloak provider returns them, the preferred channel being the         *)
(* attribute value as it is (a list) or None when there is no such         *)
(* attribute: an address for sms and a preferred channel with no address   *)
(* (u3), an empty address (u4), no attribute at all (u5), addresses for    *)
(* telegram and email with telegram preferred (u6).  "ux" is in no         *)
(* directory.                                                              *)
Directory ==
  [u \in {"u1", "u2", "u3", "u4", "u5", "u6"} |->
     CASE u = "u1" -> UserNotificationsSettings(
                        Channels("email" :> "a" @@ "push" :> "a"), "email")
       [] u = "u2" -> UserNotificationsSettings(
                        Channels("sms" :> "a" @@ "push" :> "a" @@ "email" :> "a"),
                        "push")
       [] u = "u3" -> UserNotificationsSettings(Channels("sms" :> "a"),
                                                AsList("telegram"))
       [] u = "u4" -> UserNotificationsSettings(Channels("telegram" :> ""), None)
       [] u = "u5" -> UserNotificationsSettings(NoChannels, None)
       [] u = "u6" -> UserNotificationsSettings(
                        Channels("telegram" :> "a" @@ "email" :> "a"),
                        AsList("telegram"))]

(* keys of the notification_channels dict *)
ConfiguredChannels(settings) ==
  {t \in NotificationType : settings.notification_channels[t] # Absent}

(* what keycloak_admin.get_user can do: answer, fail to connect            *)
(* (KeycloakError, KeycloakConnectionError), or fail the GET with any      *)
(* error status (KeycloakGetError)                                         *)
DirectoryStates == {"up", "unreachable", "get_error"}

(* get_notification_settings: KeycloakGetError, whatever its status, is    *)
(* raised as UserNotFound, the other Keycloak errors as TemporaryFailure;  *)
(* the local provider raises UserNotFound for a user it does not have      *)
GetNotificationSettings(user, directory) ==
  IF directory = "unreachable" THEN "temporary_failure"
  ELSE IF directory = "get_error" THEN "user_not_found"
  ELSE IF user \notin DOMAIN Directory THEN "user_not_found"
  ELSE "ok"

(* what the transport function of a channel can do.  _send_email: the      *)
(* message is sent, EmailMessage refuses a header (ValueError, before any  *)
(* connection), smtplib raises an SMTPException or an OSError.  _send_sms, *)
(* _send_push, _send_message_in_telegram: the service is not configured    *)
(* (url, key or token unset: return without a request), the request is     *)
(* answered 200, raises a RequestException, or is answered with another    *)
(* status; for telegram a 200 body can have "ok" false, be no JSON         *)
(* (requests' JSONDecodeError, or a plain ValueError where json() raises   *)
(* that), or be JSON that is no object (AttributeError on .get)            *)
TransportResults(channel) ==
  CASE channel = "email" ->
         {"ok", "header_value_error", "smtp_exception", "os_error"}
    [] channel \in {"sms", "push"} ->
         {"ok", "mock", "request_exception", "non_200"}
    [] channel = "telegram" ->
         {"ok", "mock", "request_exception", "non_200", "ok_false",
          "json_decode_error", "json_value_error", "json_not_object"}

AllTransportResults == UNION {TransportResults(c) : c \in NotificationType}

(* _send_sms, _send_push, _send_message_in_telegram: what the function     *)
(* returns or raises; a bad response is raised as RequestException         *)
HttpTransport(transport) ==
  CASE transport = "mock" -> "ok_mock"
    [] transport \in {"non_200", "ok_false", "json_decode_error"} ->
         "request_exception"
    [] transport = "json_value_error" -> "value_error"
    [] transport = "json_not_object" -> "attribute_error"
    [] OTHER -> transport

(* _send_email: what the function returns or raises *)
SmtpTransport(transport) ==
  IF transport = "header_value_error" THEN "value_error" ELSE transport

(* the try/except around the transport function: email catches             *)
(* SMTPException, the others RequestException; anything else leaves send   *)
(* as it is                                                                *)
ChannelTransport(channel, transport) ==
  LET raised == IF channel = "email" THEN SmtpTransport(transport)
                ELSE HttpTransport(transport)
      caught == IF channel = "email" THEN "smtp_exception"
                ELSE "request_exception"
  IN  IF raised = caught THEN "couldnt_send_notification" ELSE raised

(* ---------------------------------------------------------------------- *)
(* State                                                                   *)
(* ---------------------------------------------------------------------- *)
VARIABLES
  rows,       \* the notification table, in the order of the INSERTs
  wk,         \* per worker: the running send_notifications invocation; locks
              \* are the rows its transaction has locked, written what its
              \* UPDATE wrote; lookup, log, failures, lacked, succeeded, last,
              \* transport_called and error record what its calls did,
              \* skipped the locked pending rows its claim passed over,
              \* unlocked the pending rows its claim could choose from
  cl,         \* per request: SendNotificationView.post with its
              \* SendNotificationUseCase.execute call and the response; row
              \* is the row its open transaction inserted, fresh and sequel
              \* record what was true when it began
  delivered,  \* per notification id: channel sends that succeeded so far
  columns,    \* the fields of NotificationModel
  disabled    \* the channels whose <X>_NOTIFICATIONS_ENABLED setting is false

vars == <<rows, wk, cl, delivered, columns, disabled>>

(* the deployment: the table definition and the settings never change *)
deployment == <<columns, disabled>>

Ids == {"A", "B"}

NoNotification == Notification(None, None, None, None, None, None)

(* the fields models.py declares on NotificationModel (with the implicit   *)
(* primary key)                                                            *)
DeclaredColumns ==
  {"id", "uuid", "user_id", "title", "text", "type", "status", "sent_at"}

(* the fields the repository, the serializer and the tests use: the data   *)
(* model with the recipient as user_uuid and the creation time             *)
UsedColumns ==
  {"id", "uuid", "user_uuid", "title", "text", "type", "status", "created_at"}

(* NotificationSerializer.Meta.fields *)
SerializerFields == {"uuid", "user_uuid", "title", "text", "type"}

(* the keyword arguments of objects.create and the fields _model_to_entity *)
(* reads                                                                   *)
EntityFields == {"uuid", "user_uuid", "title", "text", "type", "status"}

(* settings.<X>_NOTIFICATIONS_ENABLED is false for these channels *)
DisabledChannels == disabled

(* a worker outside any invocation, or entering one *)
FreshWorker ==
  [pc |-> "idle", row |-> 0, locks |-> {}, written |-> << >>,
   notification |-> NoNotification, lookup |-> "none",
   channel_types |-> << >>, ci |-> 0, attempt |-> 0,
   log |-> << >>, failures |-> {}, lacked |-> {}, succeeded |-> FALSE,
   last |-> "none", transport_called |-> FALSE,
   updates |-> 0, skipped |-> {}, unlocked |-> {},
   outcome |-> "none", error |-> None]

NoResult == [uuid |-> None, status |-> None, was_created |-> FALSE]

NoResponse == [data |-> NoResult, status_code |-> 0]

FreshClient ==
  [pc |-> "idle", payload |-> NoNotification, result |-> NoResult,
   response |-> NoResponse, error |-> None, row |-> 0,
   fresh |-> FALSE, sequel |-> FALSE]

(* an empty table, of either definition; telegram switched off *)
Init ==
  /\ rows = << >>
  /\ wk = [w \in Workers |-> FreshWorker]
  /\ cl = [c \in Clients |-> FreshClient]
  /\ delivered = [i \in Ids |-> 0]
  /\ columns \in {DeclaredColumns, UsedColumns}
  /\ disabled = {"telegram"}

(* an empty table, of either definition; every channel switched on *)
InitEnabled ==
  /\ rows = << >>
  /\ wk = [w \in Workers |-> FreshWorker]
  /\ cl = [c \in Clients |-> FreshClient]
  /\ delivered = [i \in Ids |-> 0]
  /\ columns \in {DeclaredColumns, UsedColumns}
  /\ disabled = {}

(* ---------------------------------------------------------------------- *)
(* Channels                                                                *)
(* ---------------------------------------------------------------------- *)
(* the enabled check made before the address check *)
ChannelSendDisabledFirst(user, channel, directory, transport) ==
  IF GetNotificationSettings(user, directory) # "ok"
  THEN GetNotificationSettings(user, directory)
  ELSE IF channel \in DisabledChannels THEN "ok_disabled"
  ELSE IF Directory[user].notification_channels[channel] \in {Absent, ""}
  THEN "user_doesnt_have_the_channel"
  ELSE ChannelTransport(channel, transport)

(* a switched-off channel raising CouldntSendNotification instead of        *)
(* returning                                                               *)
ChannelSendDisabledFails(user, channel, directory, transport) ==
  IF GetNotificationSettings(user, directory) # "ok"
  THEN GetNotificationSettings(user, directory)
  ELSE IF Directory[user].notification_channels[channel] \in {Absent, ""}
  THEN "user_doesnt_have_the_channel"
  ELSE IF channel \in DisabledChannels THEN "couldnt_send_notification"
  ELSE ChannelTransport(channel, transport)

(* NotificationChannel.send of every variant: settings lookup, address     *)
(* check, enabled check, transport function.  Returns the outcome of the   *)
(* call.                                                                   *)
ChannelSend(user, channel, directory, transport) ==
  IF GetNotificationSettings(user, directory) # "ok"
  THEN GetNotificationSettings(user, directory)
  ELSE IF Directory[user].notification_channels[channel] \in {Absent, ""}
  THEN "user_doesnt_have_the_channel"
  ELSE IF channel \in DisabledChannels THEN "ok_disabled"
  ELSE ChannelTransport(channel, transport)

(* the call reached the transport: send got as far as the transport        *)
(* function, and that opened the SMTP connection or posted the request     *)
TransportCalled(user, channel, directory, transport) ==
  /\ GetNotificationSettings(user, directory) = "ok"
  /\ Directory[user].notification_channels[channel] \notin {Absent, ""}
  /\ channel \notin DisabledChannels
  /\ transport \notin {"mock", "header_value_error"}

(* the kind of a failed attempt as the record of the loop keeps it: the    *)
(* two channel errors and TemporaryFailure by their class, and as one kind *)
(* every other exception that only `except Exception` catches (OSError,    *)
(* ValueError, AttributeError, UserNotFound)                               *)
ErrorKind(outcome) ==
  IF outcome \in {"user_doesnt_have_the_channel", "couldnt_send_notification",
                  "temporary_failure"}
  THEN outcome
  ELSE "other_exception"

(* send returned without raising *)
SendSucceeded(outcome) == outcome \in {"ok", "ok_disabled", "ok_mock"}

(* get_notification_channel: the lookup table over the enum *)
GetNotificationChannel(type) ==
  IF type \in NotificationType THEN type ELSE "value_error"

(* every order a list built from a set can have *)
RECURSIVE Orders(_)
Orders(S) ==
  IF S = {} THEN {<< >>}
  ELSE UNION {{<<x>> \o rest : rest \in Orders(S \ {x})} : x \in S}

(* the preferred channel not taken out of the set before it is inserted *)
CandidateChannelsPreferredTwice(type, settings) ==
  IF type # None THEN {<<type>>}
  ELSE LET pref == settings.preferred_notification_channel
           rest == ConfiguredChannels(settings)
       IN  IF ~Hashable(pref) THEN {}
           ELSE {IF pref # None THEN <<pref>> \o o ELSE o : o \in Orders(rest)}

(* the type of the notification ignored: always the user's preference *)
CandidateChannelsIgnoringType(type, settings) ==
  LET pref == settings.preferred_notification_channel
      rest == ConfiguredChannels(settings) \ {pref}
  IN  IF ~Hashable(pref) THEN {}
      ELSE {IF pref # None THEN <<pref>> \o o ELSE o : o \in Orders(rest)}

(* the preferred channel put last in the list instead of first *)
CandidateChannelsPreferredLast(type, settings) ==
  IF type # None THEN {<<type>>}
  ELSE LET pref == settings.preferred_notification_channel
           rest == ConfiguredChannels(settings) \ {pref}
       IN  IF ~Hashable(pref) THEN {}
           ELSE {IF pref # None THEN o \o <<pref>> ELSE o : o \in Orders(rest)}

(* every channel type put in the list, whether the user has it or not *)
CandidateChannelsEveryType(type, settings) ==
  IF type # None THEN {<<type>>}
  ELSE LET pref == settings.preferred_notification_channel
           rest == NotificationType \ {pref}
       IN  IF ~Hashable(pref) THEN {}
           ELSE {IF pref # None THEN <<pref>> \o o ELSE o : o \in Orders(rest)}

(* notification_channel_types of send_notifications, for a notification    *)
(* whose pinned type (if any) is configured: every list the code can       *)
(* build; none when {preferred} raises TypeError                           *)
CandidateChannels(type, settings) ==
  IF type # None THEN {<<type>>}
  ELSE LET pref == settings.preferred_notification_channel
           rest == ConfiguredChannels(settings) \ {pref}
       IN  IF ~Hashable(pref) THEN {}
           ELSE {IF pref # None THEN <<pref>> \o o ELSE o : o \in Orders(rest)}

(* ---------------------------------------------------------------------- *)
(* Notification store                                                      *)
(* ---------------------------------------------------------------------- *)
Min(S) == CHOOSE x \in S : \A y \in S : x <= y

InFlight(w) == wk[w].pc \in {"resolve", "send", "update", "commit"}

(* rows locked by the open transaction of another worker *)
LockedByOthers(w) == UNION {wk[v].locks : v \in Workers \ {w}}

(* rows inserted by a transaction that has not committed yet *)
Uncommitted == {cl[c].row : c \in {d \in Clients : cl[d].pc = "commit"}}

(* a row other transactions can read: its INSERT is committed *)
Visible(i) == i \notin Uncommitted

(* filter(uuid=...): the committed rows with the uuid *)
RowsWithUuid(uuid) ==
  {i \in 1..Len(rows) : Visible(i) /\ rows[i].uuid = uuid}

(* repo.exists *)
Exists(uuid) == RowsWithUuid(uuid) # {}

(* the result of a repository call: the exception it raised, if any *)
Raised(error) == [error |-> error, row |-> 0, table |-> rows]

(* repo.get_by_uuid: filter(uuid=...).first(), ObjectNotFoundInRepository  *)
(* when there is none, then _model_to_entity                               *)
GetByUuid(uuid) ==
  IF ~Exists(uuid) THEN Raised("object_not_found_in_repository")
  ELSE IF ~(EntityFields \subseteq columns) THEN Raised("attribute_error")
  ELSE [error |-> None, row |-> Min(RowsWithUuid(uuid)), table |-> rows]

(* the oldest unlocked pending row passed over when there is a younger one *)
GetPendingAfterHead(w) ==
  LET free == {i \in 1..Len(rows) :
                 Visible(i) /\ rows[i].status = "pending"
                 /\ i \notin LockedByOthers(w)}
  IN  IF "created_at" \notin columns THEN Raised("field_error")
      ELSE [error |-> None, table |-> rows,
            row |-> IF free = {} THEN 0
                    ELSE IF free = {Min(free)} THEN Min(free)
                    ELSE Min(free \ {Min(free)})]

(* order_by("-created_at"): the newest unlocked pending row *)
GetPendingNewestFirst(w) ==
  LET free == {i \in 1..Len(rows) :
                 Visible(i) /\ rows[i].status = "pending"
                 /\ i \notin LockedByOthers(w)}
  IN  IF "created_at" \notin columns THEN Raised("field_error")
      ELSE [error |-> None, table |-> rows,
            row |-> IF free = {} THEN 0
                    ELSE CHOOSE i \in free : \A j \in free : j <= i]

(* select_for_update without skip_locked and without the lock: the oldest  *)
(* pending row, whoever holds it                                           *)
GetPendingIgnoringLocks(w) ==
  LET pending == {i \in 1..Len(rows) :
                    Visible(i) /\ rows[i].status = "pending"}
  IN  IF "created_at" \notin columns THEN Raised("field_error")
      ELSE [error |-> None, table |-> rows,
            row |-> IF pending = {} THEN 0 ELSE Min(pending)]

(* repo.get_pending_for_update: select_for_update(skip_locked=True)         *)
(* .filter(status=PENDING).order_by("created_at").first(); row 0 for None, *)
(* FieldError when the model has no created_at                             *)
GetPendingForUpdate(w) ==
  LET free == {i \in 1..Len(rows) :
                 Visible(i) /\ rows[i].status = "pending"
                 /\ i \notin LockedByOthers(w)}
  IN  IF "created_at" \notin columns THEN Raised("field_error")
      ELSE [error |-> None, table |-> rows,
            row |-> IF free = {} THEN 0 ELSE Min(free)]

(* the pending rows no other transaction holds a lock on *)
UnlockedPending(w) ==
  {i \in 1..Len(rows) : /\ Visible(i) /\ rows[i].status = "pending"
                        /\ i \notin LockedByOthers(w)}

(* the pending rows older than row i (every one when i = 0) that the claim *)
(* of w passes over because another transaction holds their lock           *)
SkippedLocked(w, i) ==
  {j \in 1..Len(rows) : /\ Visible(j) /\ rows[j].status = "pending"
                        /\ j \in LockedByOthers(w)
                        /\ (i = 0 \/ j < i)}

(* the status of the payload passed on to the new row *)
CreateWithPayloadStatus(n) ==
  IF ~(EntityFields \subseteq columns) THEN Raised("type_error")
  ELSE [error |-> None, row |-> Len(rows) + 1,
        table |-> Append(rows, Notification(n.uuid, n.user_uuid, n.title,
                                            n.text, n.type, n.status))]

(* repo.create: the INSERT gives the row the next primary key and         *)
(* created_at, the model's defaults give status PENDING; no column of the  *)
(* table is unique, so a second row with the same uuid is accepted;        *)
(* TypeError when the model has no user_uuid                               *)
Create(n) ==
  IF ~(EntityFields \subseteq columns) THEN Raised("type_error")
  ELSE [error |-> None, row |-> Len(rows) + 1,
        table |-> Append(rows, Notification(n.uuid, n.user_uuid, n.title,
                                            n.text, n.type, "pending"))]

(* repo.update: filter(uuid=...).update(...) writes every row with the     *)
(* uuid; ObjectNotFoundInRepository when it matched none, FieldDoesNotExist *)
(* when the model has no user_uuid                                         *)
Update(n) ==
  IF ~(EntityFields \subseteq columns) THEN Raised("field_does_not_exist")
  ELSE IF RowsWithUuid(n.uuid) = {}
  THEN Raised("object_not_found_in_repository")
  ELSE [error |-> None, row |-> Min(RowsWithUuid(n.uuid)),
        table |-> [i \in 1..Len(rows) |->
                     IF i \in RowsWithUuid(n.uuid) THEN n ELSE rows[i]]]

(* ---------------------------------------------------------------------- *)
(* Unit of work                                                            *)
(* ---------------------------------------------------------------------- *)
(* the exception recorded but the transaction, and its row lock, left open *)
RollbackKeepingLock(w, how, error) ==
  wk' = [wk EXCEPT ![w] = [wk[w] EXCEPT !.outcome = how, !.error = error]]

(* __exit__ with an exception: the transaction is rolled back, its row     *)
(* locks are released and nothing the invocation wrote is kept             *)
Rollback(w, how, error) ==
  wk' = [wk EXCEPT ![w] = [FreshWorker EXCEPT !.pc = "done", !.outcome = how,
                                             !.error = error]]

(* ---------------------------------------------------------------------- *)
(* send_notifications                                                      *)
(* ---------------------------------------------------------------------- *)
(* notification.status = FAILED, then on to repo.update *)
MarkFailed(rec) ==
  [rec EXCEPT !.notification.status = "failed", !.pc = "update"]

(* a successful send ends the attempts on its channel only: SENT, and the  *)
(* loop goes on with the next channel                                      *)
MarkSentThenNextChannel(rec) ==
  IF rec.ci < Len(rec.channel_types)
  THEN [rec EXCEPT !.notification.status = "sent",
                   !.ci = rec.ci + 1, !.attempt = 0]
  ELSE [rec EXCEPT !.notification.status = "sent", !.pc = "update"]

(* the break after a successful send left out: SENT, and the loop goes on *)
MarkSentNoBreak(rec) ==
  [rec EXCEPT !.notification.status = "sent"]

(* notification.status = SENT, then on to repo.update *)
MarkSent(rec) ==
  [rec EXCEPT !.notification.status = "sent", !.pc = "update"]

(* range(3) off by one: a fourth attempt on every channel *)
NextAttemptOneMore(rec) ==
  IF rec.attempt + 1 <= MaxAttempts
  THEN [rec EXCEPT !.attempt = rec.attempt + 1]
  ELSE IF rec.ci < Len(rec.channel_types)
  THEN [rec EXCEPT !.ci = rec.ci + 1, !.attempt = 0]
  ELSE [rec EXCEPT !.notification.status = "failed", !.pc = "update"]

(* the except branches of the attempt loop: continue with the next attempt, *)
(* after range(3) with the next channel, after the last channel FAILED      *)
NextAttempt(rec) ==
  IF rec.attempt + 1 < MaxAttempts
  THEN [rec EXCEPT !.attempt = rec.attempt + 1]
  ELSE IF rec.ci < Len(rec.channel_types)
  THEN [rec EXCEPT !.ci = rec.ci + 1, !.attempt = 0]
  ELSE MarkFailed(rec)

(* the return on "no notification" left out: the invocation goes on *)
ClaimNoEarlyReturn(w) ==
  /\ wk[w].pc \in {"idle", "done"}
  /\ LET r == GetPendingForUpdate(w)
         i == r.row
     IN  IF r.error # None
         THEN Rollback(w, "raised", r.error)
         ELSE wk' = [wk EXCEPT ![w] =
                       [FreshWorker EXCEPT !.pc = "resolve", !.row = i,
                                           !.locks = {i} \ {0},
                                           !.notification =
                                             IF i = 0 THEN NoNotification
                                             ELSE rows[i],
                                           !.skipped = SkippedLocked(w, i),
                                           !.unlocked = UnlockedPending(w)]]
  /\ UNCHANGED <<rows, cl, delivered, deployment>>

(* with uow: get_pending_for_update(); return when there is none *)
Claim(w) ==
  /\ wk[w].pc \in {"idle", "done"}
  /\ LET r == GetPendingForUpdate(w)
         i == r.row
     IN  IF r.error # None
         THEN Rollback(w, "raised", r.error)
         ELSE wk' = [wk EXCEPT ![w] =
                       IF i = 0
                       THEN [FreshWorker EXCEPT !.pc = "done",
                                                !.outcome = "noop",
                                                !.skipped = SkippedLocked(w, 0)]
                       ELSE [FreshWorker EXCEPT !.pc = "resolve", !.row = i,
                                                !.locks = {i},
                                                !.notification = rows[i],
                                                !.skipped = SkippedLocked(w, i),
                                                !.unlocked = UnlockedPending(w)]]
  /\ UNCHANGED <<rows, cl, delivered, deployment>>

(* into the attempt loop with the list, or FAILED when the list is empty *)
EnterLoop(rec, types) ==
  IF types = << >>
  THEN MarkFailed(rec)
  ELSE [rec EXCEPT !.pc = "send", !.channel_types = types,
                   !.ci = 1, !.attempt = 0]

(* an empty channel list taken for a delivery: the fall-through stores SENT *)
ResolveEmptyListSent(w, directory) ==
  /\ wk[w].pc = "resolve"
  /\ LET n == wk[w].notification
         r == GetNotificationSettings(n.user_uuid, directory)
         rec == [wk[w] EXCEPT !.lookup = r]
     IN  CASE r = "temporary_failure" -> Rollback(w, "raised", r)
           [] r = "user_not_found" -> wk' = [wk EXCEPT ![w] = MarkFailed(rec)]
           [] r = "ok" ->
                LET settings == Directory[n.user_uuid]
                IN  IF n.type # None /\ n.type \notin ConfiguredChannels(settings)
                    THEN wk' = [wk EXCEPT ![w] = MarkFailed(rec)]
                    ELSE IF CandidateChannels(n.type, settings) = {}
                    THEN Rollback(w, "raised", "type_error")
                    ELSE \E types \in CandidateChannels(n.type, settings) :
                           wk' = [wk EXCEPT ![w] =
                                    IF types = << >> THEN MarkSent(rec)
                                    ELSE EnterLoop(rec, types)]
  /\ UNCHANGED <<rows, cl, delivered, deployment>>

(* UserNotFound handled without setting the status: written back pending *)
ResolveUserNotFoundNoStatus(w, directory) ==
  /\ wk[w].pc = "resolve"
  /\ LET n == wk[w].notification
         r == GetNotificationSettings(n.user_uuid, directory)
         rec == [wk[w] EXCEPT !.lookup = r]
     IN  CASE r = "temporary_failure" -> Rollback(w, "raised", r)
           [] r = "user_not_found" ->
                wk' = [wk EXCEPT ![w] = [rec EXCEPT !.pc = "update"]]
           [] r = "ok" ->
                LET settings == Directory[n.user_uuid]
                IN  IF n.type # None /\ n.type \notin ConfiguredChannels(settings)
                    THEN wk' = [wk EXCEPT ![w] = MarkFailed(rec)]
                    ELSE IF CandidateChannels(n.type, settings) = {}
                    THEN Rollback(w, "raised", "type_error")
                    ELSE \E types \in CandidateChannels(n.type, settings) :
                           wk' = [wk EXCEPT ![w] = EnterLoop(rec, types)]
  /\ UNCHANGED <<rows, cl, delivered, deployment>>

(* the test of the pinned type against the user's channels left out *)
ResolveNoPinCheck(w, directory) ==
  /\ wk[w].pc = "resolve"
  /\ LET n == wk[w].notification
         r == GetNotificationSettings(n.user_uuid, directory)
         rec == [wk[w] EXCEPT !.lookup = r]
     IN  CASE r = "temporary_failure" -> Rollback(w, "raised", r)
           [] r = "user_not_found" -> wk' = [wk EXCEPT ![w] = MarkFailed(rec)]
           [] r = "ok" ->
                LET settings == Directory[n.user_uuid]
                IN  IF CandidateChannels(n.type, settings) = {}
                    THEN Rollback(w, "raised", "type_error")
                    ELSE \E types \in CandidateChannels(n.type, settings) :
                           wk' = [wk EXCEPT ![w] = EnterLoop(rec, types)]
  /\ UNCHANGED <<rows, cl, delivered, deployment>>

(* user_provider.get_notification_settings and the choice of the channels: *)
(* TemporaryFailure leaves the invocation, UserNotFound and a pinned type  *)
(* the user has not configured go to the update with FAILED, and building  *)
(* the list for a notification with no type raises TypeError when the      *)
(* preferred channel is a list                                             *)
Resolve(w, directory) ==
  /\ wk[w].pc = "resolve"
  /\ LET n == wk[w].notification
         r == GetNotificationSettings(n.user_uuid, directory)
         rec == [wk[w] EXCEPT !.lookup = r]
     IN  CASE r = "temporary_failure" -> Rollback(w, "raised", r)
           [] r = "user_not_found" -> wk' = [wk EXCEPT ![w] = MarkFailed(rec)]
           [] r = "ok" ->
                LET settings == Directory[n.user_uuid]
                IN  IF n.type # None /\ n.type \notin ConfiguredChannels(settings)
                    THEN wk' = [wk EXCEPT ![w] = MarkFailed(rec)]
                    ELSE IF CandidateChannels(n.type, settings) = {}
                    THEN Rollback(w, "raised", "type_error")
                    ELSE \E types \in CandidateChannels(n.type, settings) :
                           wk' = [wk EXCEPT ![w] = EnterLoop(rec, types)]
  /\ UNCHANGED <<rows, cl, delivered, deployment>>

(* `except Exception` left out: an error that is no NotificationChannelError *)
(* leaves the invocation                                                   *)
SendPropagatingUnexpected(w, directory, transport) ==
  /\ wk[w].pc = "send"
  /\ transport \in TransportResults(wk[w].channel_types[wk[w].ci])
  /\ LET rec == wk[w]
         n == rec.notification
         type == rec.channel_types[rec.ci]
         channel == GetNotificationChannel(type)
         out == IF channel = "value_error" THEN "value_error"
                ELSE ChannelSend(n.user_uuid, channel, directory, transport)
         called == IF channel = "value_error" THEN rec
                   ELSE [rec EXCEPT
                           !.log = Append(rec.log, channel),
                           !.last = out,
                           !.transport_called =
                             TransportCalled(n.user_uuid, channel,
                                             directory, transport)]
     IN  IF SendSucceeded(out)
         THEN /\ delivered[n.uuid] < MaxDelivered
              /\ delivered' = [delivered EXCEPT ![n.uuid] = delivered[n.uuid] + 1]
              /\ wk' = [wk EXCEPT ![w] =
                          MarkSent([called EXCEPT !.succeeded = TRUE])]
         ELSE IF out \in {"user_doesnt_have_the_channel",
                          "couldnt_send_notification"}
         THEN /\ wk' = [wk EXCEPT ![w] =
                          NextAttempt([called EXCEPT
                            !.failures = called.failures \cup {ErrorKind(out)},
                            !.lacked = IF out = "user_doesnt_have_the_channel"
                                       THEN called.lacked \cup {type}
                                       ELSE called.lacked])]
              /\ UNCHANGED delivered
         ELSE /\ Rollback(w, "raised", out)
              /\ UNCHANGED delivered
  /\ UNCHANGED <<rows, cl, deployment>>

(* one attempt: get_notification_channel(channel_type).send(notification); *)
(* a return ends the loop, any exception is one failed attempt             *)
Send(w, directory, transport) ==
  /\ wk[w].pc = "send"
  /\ transport \in TransportResults(wk[w].channel_types[wk[w].ci])
  /\ LET rec == wk[w]
         n == rec.notification
         type == rec.channel_types[rec.ci]
         channel == GetNotificationChannel(type)
         out == IF channel = "value_error" THEN "value_error"
                ELSE ChannelSend(n.user_uuid, channel, directory, transport)
         called == IF channel = "value_error" THEN rec
                   ELSE [rec EXCEPT
                           !.log = Append(rec.log, channel),
                           !.last = out,
                           !.transport_called =
                             TransportCalled(n.user_uuid, channel,
                                             directory, transport)]
     IN  IF SendSucceeded(out)
         THEN /\ delivered[n.uuid] < MaxDelivered
              /\ delivered' = [delivered EXCEPT ![n.uuid] = delivered[n.uuid] + 1]
              /\ wk' = [wk EXCEPT ![w] =
                          MarkSent([called EXCEPT !.succeeded = TRUE])]
         ELSE /\ wk' = [wk EXCEPT ![w] =
                          NextAttempt([called EXCEPT
                            !.failures = called.failures \cup {ErrorKind(out)},
                            !.lacked = IF out = "user_doesnt_have_the_channel"
                                       THEN called.lacked \cup {type}
                                       ELSE called.lacked])]
              /\ UNCHANGED delivered
  /\ UNCHANGED <<rows, cl, deployment>>

(* uow.notification_repo.update(notification): the UPDATE waits while a    *)
(* row it writes is locked by another transaction, then holds the lock of  *)
(* every row it wrote; when it raises, the exception leaves the with block *)
RepoUpdate(w) ==
  /\ wk[w].pc = "update"
  /\ LET n == wk[w].notification
         r == Update(n)
     IN  IF r.error # None
         THEN Rollback(w, "raised", r.error)
         ELSE /\ RowsWithUuid(n.uuid) \cap LockedByOthers(w) = {}
              /\ wk' = [wk EXCEPT ![w] =
                          [wk[w] EXCEPT
                             !.pc = "commit",
                             !.locks = wk[w].locks \cup RowsWithUuid(n.uuid),
                             !.written = [i \in RowsWithUuid(n.uuid) |->
                                            r.table[i]],
                             !.updates = wk[w].updates + 1]]
  /\ UNCHANGED <<rows, cl, delivered, deployment>>

(* the rows the transaction wrote removed from the table at the commit *)
CommitDeletingRows(w) ==
  /\ wk[w].pc = "commit"
  /\ rows' = SelectSeq(rows, LAMBDA r : r.uuid # wk[w].notification.uuid)
  /\ wk' = [wk EXCEPT ![w] =
              [FreshWorker EXCEPT !.pc = "done",
                                  !.updates = wk[w].updates,
                                  !.outcome = wk[w].notification.status]]
  /\ UNCHANGED <<cl, delivered, deployment>>

(* return; __exit__ without an exception: the transaction commits, what it *)
(* wrote is in the table and its row locks are released                    *)
Commit(w) ==
  /\ wk[w].pc = "commit"
  /\ rows' = [i \in 1..Len(rows) |->
                IF i \in DOMAIN wk[w].written THEN wk[w].written[i]
                ELSE rows[i]]
  /\ wk' = [wk EXCEPT ![w] =
              [FreshWorker EXCEPT !.pc = "done",
                                  !.updates = wk[w].updates,
                                  !.outcome = wk[w].notification.status]]
  /\ UNCHANGED <<cl, delivered, deployment>>

(* the worker dies, times out or loses the database inside the with block *)
Crash(w) ==
  /\ InFlight(w)
  /\ Rollback(w, "crashed", None)
  /\ UNCHANGED <<rows, cl, delivered, deployment>>

(* ---------------------------------------------------------------------- *)
(* SendNotificationView.post and SendNotificationUseCase.execute           *)
(* ---------------------------------------------------------------------- *)
NotificationStatusDTO(uuid, status, was_created) ==
  [uuid |-> uuid, status |-> status, was_created |-> was_created]

(* rest_framework Response(data, status) *)
Response(data, status) == [data |-> data, status_code |-> status]

(* serializer.is_valid(raise_exception=True) on a well-formed body: the    *)
(* model serializer builds its fields from the model, ImproperlyConfigured *)
(* when one of Meta.fields is no field of the model                        *)
IsValid(payload) ==
  IF SerializerFields \subseteq columns THEN "ok" ELSE "improperly_configured"

(* the status code fixed to 201 whatever was_created says *)
PostAlwaysCreated(accept_status) == Response(accept_status, 201)

(* SendNotificationView.post after execute: asdict(accept_status) with     *)
(* status code 201 if accept_status.was_created else 200                   *)
Post(accept_status) ==
  Response(accept_status, IF accept_status.was_created THEN 201 ELSE 200)

(* the request ends: the view answers with the result of execute *)
Respond(rec) == [rec EXCEPT !.response = Post(rec.result)]

(* an exception leaves execute and post: no result, no Response *)
Raise(rec, error) == [rec EXCEPT !.pc = "raised", !.error = error]

(* is_valid, then if self.uow.notification_repo.exists(notification.uuid) *)
SubmitExists(c, payload) ==
  /\ cl[c].pc = "idle"
  /\ cl' = [cl EXCEPT ![c] =
              IF IsValid(payload) # "ok"
              THEN Raise([FreshClient EXCEPT !.payload = payload],
                         IsValid(payload))
              ELSE [pc |-> IF Exists(payload.uuid) THEN "get" ELSE "create",
                    payload |-> payload, result |-> NoResult,
                    response |-> NoResponse, error |-> None, row |-> 0,
                    fresh |-> RowsWithUuid(payload.uuid) = {},
                    sequel |-> \E d \in Clients :
                                 /\ cl[d].pc = "done"
                                 /\ cl[d].payload.uuid = payload.uuid]]
  /\ UNCHANGED <<rows, wk, delivered, deployment>>

(* the result built from the incoming payload, not from the fetched row *)
SubmitGetEchoPayload(c) ==
  /\ cl[c].pc = "get"
  /\ cl' = [cl EXCEPT ![c] =
              Respond([cl[c] EXCEPT !.pc = "done",
                 !.result = NotificationStatusDTO(cl[c].payload.uuid,
                                                  cl[c].payload.status, FALSE)])]
  /\ UNCHANGED <<rows, wk, delivered, deployment>>

(* the existing row overwritten with the incoming payload (an upsert) *)
SubmitGetUpsert(c) ==
  /\ cl[c].pc = "get"
  /\ rows' = [i \in 1..Len(rows) |->
               IF i \in RowsWithUuid(cl[c].payload.uuid)
               THEN [cl[c].payload EXCEPT !.status = rows[i].status]
               ELSE rows[i]]
  /\ cl' = [cl EXCEPT ![c] =
              Respond([cl[c] EXCEPT !.pc = "done",
                 !.result = NotificationStatusDTO(
                              cl[c].payload.uuid,
                              rows[Min(RowsWithUuid(cl[c].payload.uuid))].status,
                              FALSE)])]
  /\ UNCHANGED <<wk, delivered, deployment>>

(* notification = get_by_uuid(notification.uuid); was_created stays False; *)
(* ObjectNotFoundInRepository leaves execute when the row is gone          *)
SubmitGet(c) ==
  /\ cl[c].pc = "get"
  /\ LET r == GetByUuid(cl[c].payload.uuid)
     IN  cl' = [cl EXCEPT ![c] =
                  IF r.error # None
                  THEN Raise(cl[c], r.error)
                  ELSE Respond([cl[c] EXCEPT !.pc = "done",
                          !.result = NotificationStatusDTO(
                                       rows[r.row].uuid,
                                       rows[r.row].status, FALSE)])]
  /\ UNCHANGED <<rows, wk, delivered, deployment>>

(* with self.uow: notification = create(notification), up to the end of   *)
(* the block: the INSERT in the open transaction of the request            *)
SubmitCreate(c) ==
  /\ cl[c].pc = "create"
  /\ LET r == Create(cl[c].payload)
     IN  IF r.error # None
         THEN /\ cl' = [cl EXCEPT ![c] = Raise(cl[c], r.error)]
              /\ UNCHANGED rows
         ELSE /\ rows' = r.table
              /\ cl' = [cl EXCEPT ![c] =
                          [cl[c] EXCEPT !.pc = "commit", !.row = r.row]]
  /\ UNCHANGED <<wk, delivered, deployment>>

(* the end of the with block: __exit__ commits and the row is there for    *)
(* everyone; was_created = True, and the result is built from the entity   *)
(* create returned                                                         *)
SubmitCommit(c) ==
  /\ cl[c].pc = "commit"
  /\ cl' = [cl EXCEPT ![c] =
              Respond([cl[c] EXCEPT !.pc = "done", !.row = 0,
                 !.result = NotificationStatusDTO(
                              rows[cl[c].row].uuid,
                              rows[cl[c].row].status, TRUE)])]
  /\ UNCHANGED <<rows, wk, delivered, deployment>>

(* ---------------------------------------------------------------------- *)
(* Specifications                                                          *)
(* ---------------------------------------------------------------------- *)
(* submissions of the concurrent system: two payloads for id A that differ *)
(* in every field, one for id B                                            *)
Payloads ==
  {Notification("A", "u1", "t1", "b1", "email", "pending"),
   Notification("A", "ux", "t2", "b2", "sms", "failed"),
   Notification("B", "u1", "t2", "b1", "sms", "pending")}

(* submissions of the single-worker system: one for every way the channel  *)
(* list of a dispatch can come out                                         *)
DispatchPayloads ==
  Payloads \cup
  {Notification("B", "u2", "t2", "b2", None, "pending"),
   Notification("A", "u3", "t1", "b2", None, "pending"),
   Notification("B", "u4", "t1", "b1", "telegram", "pending"),
   Notification("A", "u5", "t1", "b1", None, "pending"),
   Notification("A", "u2", "t1", "b1", "sms", "pending"),
   Notification("B", "u6", "t1", "b1", "telegram", "pending")}

(* any number of workers and requests, interleaved step by step *)
Next ==
  \/ \E w \in Workers : Claim(w)
  \/ \E w \in Workers : \E d \in DirectoryStates : Resolve(w, d)
  \/ \E w \in Workers :
       \E d \in DirectoryStates, tr \in AllTransportResults : Send(w, d, tr)
  \/ \E w \in Workers : RepoUpdate(w)
  \/ \E w \in Workers : Commit(w)
  \/ \E w \in Workers : Crash(w)
  \/ \E c \in Clients : \E p \in Payloads : SubmitExists(c, p)
  \/ \E c \in Clients : SubmitGet(c)
  \/ \E c \in Clients : SubmitCreate(c)
  \/ \E c \in Clients : SubmitCommit(c)

Spec == Init /\ [][Next]_vars

(* one worker invoked again and again, over every kind of notification *)
NextDispatch ==
  \/ Claim(1)
  \/ \E d \in DirectoryStates : Resolve(1, d)
  \/ \E d \in DirectoryStates, tr \in AllTransportResults : Send(1, d, tr)
  \/ RepoUpdate(1)
  \/ Commit(1)
  \/ Crash(1)
  \/ \E c \in Clients : \E p \in DispatchPayloads : SubmitExists(c, p)
  \/ \E c \in Clients : SubmitGet(c)
  \/ \E c \in Clients : SubmitCreate(c)
  \/ \E c \in Clients : SubmitCommit(c)

SpecDispatch == Init /\ [][NextDispatch]_vars

(* one worker, every channel switched on *)
SpecEnabled == InitEnabled /\ [][NextDispatch]_vars

(* the scheduler keeps invoking the task on worker w, and a running         *)
(* invocation runs on: each step of it that stays possible is taken         *)
Scheduling(w) ==
  /\ WF_vars(Claim(w))
  /\ WF_vars(\E d \in DirectoryStates : Resolve(w, d))
  /\ WF_vars(\E d \in DirectoryStates, tr \in AllTransportResults :
               Send(w, d, tr))
  /\ WF_vars(RepoUpdate(w))
  /\ WF_vars(Commit(w))

(* one worker under repeated invocation *)
SpecDispatchFair == SpecDispatch /\ Scheduling(1)

(* a step in which the store or the directory fails an invocation, that is *)
(* an exception it causes leaves the with block: the worker crashes or      *)
(* loses the database, or the directory cannot be reached at the lookup of  *)
(* the task (TemporaryFailure)                                              *)
InfrastructureFailure ==
  \E w \in Workers :
    \/ Crash(w)
    \/ Resolve(w, "unreachable")

(* ---------------------------------------------------------------------- *)
(* Properties                                                              *)
(* ---------------------------------------------------------------------- *)
PendingRows ==
  {i \in 1..Len(rows) : Visible(i) /\ rows[i].status = "pending"}

(* the in-flight invocations that hold the lock of row i *)
Holders(i) == {w \in Workers : i \in wk[w].locks}

(* C1 as stated: over all invocations, crashed ones included, at most one  *)
(* channel send succeeds for a notification, and a notification stored as  *)
(* sent has exactly one successful send.                                   *)
C1_ExactlyOneDelivery ==
  /\ \A id \in Ids : delivered[id] <= 1
  /\ \A i \in 1..Len(rows) :
       rows[i].status = "sent" => delivered[rows[i].uuid] = 1

(* C1 amended: a successful send ends the attempt loop of its invocation   *)
(* (so an invocation has at most one successful send), and a notification  *)
(* stored as sent has had at least one successful send.                    *)
C1_OneDeliveryPerInvocation ==
  /\ [](\A i \in 1..Len(rows) :
          rows[i].status = "sent" => delivered[rows[i].uuid] >= 1)
  /\ [][\A id \in Ids :
          delivered'[id] # delivered[id] =>
            /\ delivered'[id] = delivered[id] + 1
            /\ \E w \in Workers :
                 /\ wk[w].pc = "send" /\ wk[w].notification.uuid = id
                 /\ wk'[w].pc = "update"
                 /\ wk'[w].notification.status = "sent"]_vars

(* C1 witness: a notification stored as sent that was delivered twice *)
C1_Witness ==
  \E i \in 1..Len(rows) :
    rows[i].status = "sent" /\ delivered[rows[i].uuid] = 2

(* C2 as stated: no notification is held by two in-flight dispatch         *)
(* invocations at the same time.                                           *)
C2_MutualExclusion ==
  \A w \in Workers, v \in Workers :
    (w # v /\ InFlight(w) /\ InFlight(v)) =>
      wk[w].notification.uuid # wk[v].notification.uuid

(* C3: no row is held by two invocations, and while the store has exactly  *)
(* one pending row a claim returns it when it is unlocked and returns none *)
(* at once when another invocation holds it.                               *)
C3_AtMostOneClaim ==
  /\ [](\A i \in 1..Len(rows) : Cardinality(Holders(i)) <= 1)
  /\ [][\A w \in Workers :
          (/\ wk[w].pc \in {"idle", "done"}
           /\ wk'[w] # wk[w]
           /\ Cardinality(PendingRows) = 1) =>
            LET i == CHOOSE j \in PendingRows : TRUE
            IN  IF Holders(i) = {}
                THEN wk'[w].pc = "resolve" /\ wk'[w].row = i
                ELSE wk'[w].pc = "done" /\ wk'[w].outcome = "noop"]_vars

(* C3 witness: one pending row, held by one worker, and another worker     *)
(* whose claim passed over it and returned none                            *)
C3_Witness ==
  \E i \in 1..Len(rows), w \in Workers, v \in Workers :
    /\ PendingRows = {i}
    /\ Holders(i) = {w}
    /\ wk[v].pc = "done" /\ wk[v].outcome = "noop" /\ wk[v].skipped = {i}

(* C4 as stated: a stored status changes only from pending to sent or to   *)
(* failed; a sent or failed row never changes status again.                *)
C4_StatusLifecycle ==
  [][\A i \in 1..Len(rows) :
       rows'[i].status # rows[i].status =>
         rows[i].status = "pending" /\ rows'[i].status \in {"sent", "failed"}]_vars

(* the row get_by_uuid returns for the payload of request c *)
StoredRow(c) == rows[Min(RowsWithUuid(cl[c].payload.uuid))]

(* C5: a request for an id unknown when it began returns was_created=true  *)
(* and pending; a request begun after another request for the same id      *)
(* returned gets was_created=false, and the status it returns is the one   *)
(* stored in the first record when it fetches, not the payload's.          *)
C5_IdempotentSubmission ==
  /\ [](\A c \in Clients :
          cl[c].pc = "done" =>
            /\ cl[c].result.uuid = cl[c].payload.uuid
            /\ cl[c].fresh =>
                 (cl[c].result.was_created /\ cl[c].result.status = "pending")
            /\ cl[c].sequel => ~cl[c].result.was_created)
  /\ [][\A c \in Clients :
          (cl[c].pc = "get" /\ cl'[c].pc = "done") =>
            cl'[c].result.status = StoredRow(c).status]_vars

(* C5 witness: the first request created id A, a dispatch sent it, and a   *)
(* later request for A with another status in its payload got "sent"       *)
C5_Witness ==
  \E c \in Clients, d \in Clients :
    /\ cl[c].pc = "done" /\ cl[d].pc = "done"
    /\ cl[c].payload.uuid = cl[d].payload.uuid
    /\ cl[c].result.was_created
    /\ cl[d].sequel /\ ~cl[d].result.was_created
    /\ cl[d].result.status = "sent" /\ cl[d].payload.status = "failed"

(* C6: a step of a request whose id was in the store when it began leaves  *)
(* every row of the store as it was.                                       *)
C6_ResubmitLeavesStore ==
  [][\A c \in Clients :
       (cl'[c] # cl[c] /\ ~cl'[c].fresh) => rows' = rows]_vars

(* C6 witness: a finished resubmission whose payload differs from the      *)
(* stored row in every field                                               *)
C6_Witness ==
  \E c \in Clients :
    /\ cl[c].pc = "done" /\ ~cl[c].fresh /\ ~cl[c].result.was_created
    /\ StoredRow(c).user_uuid # cl[c].payload.user_uuid
    /\ StoredRow(c).title # cl[c].payload.title
    /\ StoredRow(c).text # cl[c].payload.text
    /\ StoredRow(c).type # cl[c].payload.type
    /\ StoredRow(c).status # cl[c].payload.status

(* C7 as stated: the store never has two rows for one id, and at most one  *)
(* request per id returns was_created=true.                                *)
C7_NoDoubleCreate ==
  \A id \in Ids :
    /\ Cardinality(RowsWithUuid(id)) <= 1
    /\ Cardinality({c \in Clients : /\ cl[c].pc = "done"
                                    /\ cl[c].result.uuid = id
                                    /\ cl[c].result.was_created}) <= 1

(* C8 as stated: an invocation that claimed a row ends in one of three     *)
(* ways: it is killed from outside, the first directory lookup raises      *)
(* TemporaryFailure, or it returns after exactly one update that stored    *)
(* sent or failed in the claimed row.  Nothing else makes it raise.        *)
C8_TerminalStatusRecorded ==
  [][\A w \in Workers :
       (InFlight(w) /\ wk'[w].pc = "done") =>
         \/ wk'[w].outcome = "crashed"
         \/ /\ wk'[w].outcome = "raised" /\ wk[w].pc = "resolve"
            /\ wk'[w].error = "temporary_failure"
         \/ /\ wk[w].pc = "commit"
            /\ wk'[w].outcome \in {"sent", "failed"}
            /\ wk'[w].updates = 1
            /\ rows'[wk[w].row].status = wk'[w].outcome]_vars

(* send calls an invocation has made on a channel *)
SendCalls(rec, channel) ==
  Cardinality({k \in 1..Len(rec.log) : rec.log[k] = channel})

(* C9 as stated: a channel whose send raised UserDoesntHaveTheChannel gets *)
(* no second send call in the invocation.                                  *)
C9_NoRetryAfterUserLacksChannel ==
  \A w \in Workers : \A channel \in wk[w].lacked :
    SendCalls(wk[w], channel) <= 1

(* every channel of the list three times, in the order of the list *)
Thrice(types) ==
  [k \in 1..(MaxAttempts * Len(types)) |-> types[((k - 1) \div MaxAttempts) + 1]]

(* no send of the invocation succeeded and every failure was               *)
(* CouldntSendNotification                                                 *)
OnlyCouldntSend(rec) ==
  /\ rec.log # << >>
  /\ ~rec.succeeded
  /\ rec.failures = {"couldnt_send_notification"}

(* C10: while every send fails with CouldntSendNotification the calls go   *)
(* through the channel list in order, three per channel; at the end there  *)
(* are 3 * len(list) calls, the status is failed, and failed is stored.    *)
C10_Exhaustion ==
  /\ [](\A w \in Workers :
          OnlyCouldntSend(wk[w]) =>
            /\ Len(wk[w].log) <= 3 * Len(wk[w].channel_types)
            /\ \A k \in 1..Len(wk[w].log) :
                 wk[w].log[k] = Thrice(wk[w].channel_types)[k]
            /\ wk[w].pc = "update" =>
                 /\ wk[w].log = Thrice(wk[w].channel_types)
                 /\ Len(wk[w].log) = 3 * Len(wk[w].channel_types)
                 /\ wk[w].notification.status = "failed")
  /\ [][\A w \in Workers :
          (/\ OnlyCouldntSend(wk[w]) /\ wk[w].pc = "commit"
           /\ wk'[w].pc = "done" /\ wk'[w].outcome # "crashed") =>
            rows'[wk[w].row].status = "failed"]_vars

(* C10 witness: three channels exhausted by nine failed sends *)
C10_Witness ==
  \E w \in Workers :
    /\ OnlyCouldntSend(wk[w]) /\ wk[w].pc = "update"
    /\ Len(wk[w].channel_types) = 3 /\ Len(wk[w].log) = 9

(* the settings the directory holds for the user of the invocation *)
SettingsOf(rec) == Directory[rec.notification.user_uuid]

(* an invocation past the first lookup, which returned the settings of the *)
(* user                                                                    *)
PastLookup(rec) ==
  /\ rec.pc \in {"send", "update", "commit"}
  /\ rec.lookup = "ok"

(* an invocation past the first lookup, for a notification with no type    *)
(* whose user has a preferred channel                                      *)
UsesPreference(rec) ==
  /\ PastLookup(rec)
  /\ rec.notification.type = None
  /\ SettingsOf(rec).preferred_notification_channel # None

(* C11: with no type and a preferred channel, the first send call is on    *)
(* the preferred channel, a call on any other channel comes only after     *)
(* three calls on the preferred one, every channel called after it is a    *)
(* configured one, and a send that succeeds on a later channel makes the   *)
(* invocation store sent.                                                  *)
C11_PreferredFirstFallback ==
  /\ [](\A w \in Workers :
          UsesPreference(wk[w]) =>
            LET pref == SettingsOf(wk[w]).preferred_notification_channel
                log == wk[w].log
            IN  \A k \in 1..Len(log) :
                  /\ k <= MaxAttempts => log[k] = pref
                  /\ log[k] # pref =>
                       /\ k > MaxAttempts
                       /\ log[k] \in ConfiguredChannels(SettingsOf(wk[w])))
  /\ [][\A w \in Workers :
          (/\ UsesPreference(wk[w]) /\ wk[w].pc = "send"
           /\ Len(wk[w].log) >= MaxAttempts
           /\ wk'[w].succeeded) =>
            /\ wk'[w].pc = "update"
            /\ wk'[w].notification.status = "sent"]_vars
  /\ [][\A w \in Workers :
          (/\ UsesPreference(wk[w]) /\ wk[w].pc = "commit" /\ wk[w].succeeded
           /\ wk'[w].pc = "done" /\ wk'[w].outcome # "crashed") =>
            rows'[wk[w].row].status = "sent"]_vars

(* C11 witness: three failed calls on the preferred channel push, then a   *)
(* second call on another channel succeeded                                *)
C11_Witness ==
  \E w \in Workers :
    /\ UsesPreference(wk[w]) /\ wk[w].pc = "update" /\ wk[w].succeeded
    /\ Len(wk[w].log) = MaxAttempts + 2
    /\ wk[w].log[1] = "push" /\ wk[w].log[MaxAttempts + 2] # "push"
    /\ wk[w].notification.status = "sent"

(* the channel type a preferred channel names: the type itself, or the     *)
(* element of the list                                                     *)
PreferredType(preferred) ==
  IF preferred \in ListPreferences
  THEN CHOOSE t \in NotificationType : AsList(t) = preferred
  ELSE preferred

(* an invocation at the lookup for a notification with no type whose user  *)
(* has a preferred channel set and no key for it in notification_channels  *)
PrefersUnconfigured(rec) ==
  /\ rec.pc = "resolve"
  /\ rec.notification.type = None
  /\ rec.notification.user_uuid \in DOMAIN Directory
  /\ SettingsOf(rec).preferred_notification_channel # None
  /\ PreferredType(SettingsOf(rec).preferred_notification_channel)
       \notin ConfiguredChannels(SettingsOf(rec))

PinnedUnconfigured(rec) ==
  /\ rec.notification.type # None
  /\ rec.lookup = "ok"
  /\ rec.notification.type \notin ConfiguredChannels(SettingsOf(rec))

(* C13: a notification pinned to a type the user has not configured goes   *)
(* from the lookup straight to the update with status failed and no send   *)
(* call, and the invocation returns after one update that stores failed.   *)
C13_PinnedUnconfiguredFails ==
  /\ [](\A w \in Workers :
          (PinnedUnconfigured(wk[w]) /\ wk[w].pc \in {"send", "update", "commit"}) =>
            /\ wk[w].pc \in {"update", "commit"}
            /\ wk[w].log = << >>
            /\ wk[w].last = "none"
            /\ wk[w].notification.status = "failed")
  /\ [][\A w \in Workers :
          (/\ PinnedUnconfigured(wk[w]) /\ InFlight(w)
           /\ wk'[w].pc = "done" /\ wk'[w].outcome \notin {"crashed", "raised"}) =>
            /\ wk[w].pc = "commit"
            /\ wk'[w].outcome = "failed"
            /\ wk'[w].updates = 1
            /\ rows'[wk[w].row].status = "failed"]_vars

(* C13 witness: the invocation for the sms notification of u1, who has     *)
(* email and push only, returned after storing failed                      *)
C13_Witness ==
  \E w \in Workers, i \in 1..Len(rows) :
    /\ wk[w].pc = "done" /\ wk[w].outcome = "failed" /\ wk[w].updates = 1
    /\ rows[i].status = "failed" /\ rows[i].type = "sms"
    /\ rows[i].user_uuid = "u1"
    /\ Len(rows) = 1

(* an invocation past the first lookup whose notification is pinned to a   *)
(* type that is a key of the user's notification_channels map              *)
PinnedConfigured(rec) ==
  /\ PastLookup(rec)
  /\ rec.notification.type # None
  /\ rec.notification.type \in ConfiguredChannels(SettingsOf(rec))

(* C14: a notification pinned to a configured type has that type as its    *)
(* only candidate, every send call is on it, there are at most three, and  *)
(* when none succeeds the invocation stores failed after the third.        *)
C14_PinnedNoFallback ==
  /\ [](\A w \in Workers :
          PinnedConfigured(wk[w]) =>
            /\ wk[w].channel_types = <<wk[w].notification.type>>
            /\ Len(wk[w].log) <= MaxAttempts
            /\ \A k \in 1..Len(wk[w].log) :
                 wk[w].log[k] = wk[w].notification.type
            /\ (wk[w].pc \in {"update", "commit"} /\ ~wk[w].succeeded) =>
                 /\ Len(wk[w].log) = MaxAttempts
                 /\ wk[w].notification.status = "failed")
  /\ [][\A w \in Workers :
          (/\ PinnedConfigured(wk[w]) /\ wk[w].pc = "commit" /\ ~wk[w].succeeded
           /\ wk'[w].pc = "done" /\ wk'[w].outcome # "crashed") =>
            rows'[wk[w].row].status = "failed"]_vars

(* C14 witness: three failed calls on sms for a user who also has push and *)
(* email and prefers push; the notification is failed                      *)
C14_Witness ==
  \E w \in Workers :
    /\ PinnedConfigured(wk[w]) /\ wk[w].pc = "update" /\ ~wk[w].succeeded
    /\ wk[w].log = <<"sms", "sms", "sms">>
    /\ wk[w].notification.status = "failed"
    /\ SettingsOf(wk[w]).preferred_notification_channel = "push"
    /\ {"push", "email"} \subseteq ConfiguredChannels(SettingsOf(wk[w]))

(* C15 as stated: a TemporaryFailure of the directory ends the invocation  *)
(* wherever it is raised, so no invocation is still running after one of   *)
(* its send calls met it.                                                  *)
C15_TemporaryFailurePropagates ==
  \A w \in Workers :
    InFlight(w) => "temporary_failure" \notin wk[w].failures

(* C16: when an invocation that holds a row crashes or raises, at any step *)
(* after the claim, the table is left as it was, the row it held is still  *)
(* pending and no transaction holds its lock any more.                     *)
C16_CrashReleasesLease ==
  /\ [](\A w \in Workers : InFlight(w) => rows[wk[w].row].status = "pending")
  /\ [][\A w \in Workers :
          (InFlight(w) /\ wk'[w].outcome \in {"crashed", "raised"}) =>
            /\ wk'[w].pc = "done"
            /\ rows' = rows
            /\ rows'[wk[w].row].status = "pending"
            /\ \A v \in Workers : wk[w].locks \cap wk'[v].locks = {}]_vars

(* C16 witness: the table has one row, one invocation crashed while it     *)
(* held it after a send had succeeded, and a later claim of another worker *)
(* returned the row                                                        *)
C16_Witness ==
  \E w \in Workers, v \in Workers :
    /\ Len(rows) = 1 /\ rows[1].status = "pending"
    /\ wk[w].pc = "done" /\ wk[w].outcome = "crashed"
    /\ delivered[rows[1].uuid] = 1
    /\ wk[v].pc = "resolve" /\ wk[v].row = 1 /\ wk[v].unlocked = {1}

(* an invocation whose first lookup raised UserNotFound: the user is in no  *)
(* directory, or the GET of the Keycloak provider failed                   *)
UserUnknown(rec) ==
  /\ rec.notification.uuid # None
  /\ rec.lookup = "user_not_found"

(* C17: after UserNotFound the invocation is at the update with status     *)
(* failed and no send call, never in the attempt loop, and it returns      *)
(* after one update that stores failed, without raising.                   *)
C17_UserNotFoundTerminal ==
  /\ [](\A w \in Workers :
          (UserUnknown(wk[w]) /\ wk[w].pc \in {"send", "update", "commit"}) =>
            /\ wk[w].pc \in {"update", "commit"}
            /\ wk[w].log = << >>
            /\ wk[w].last = "none"
            /\ wk[w].notification.status = "failed")
  /\ [][\A w \in Workers :
          (/\ UserUnknown(wk[w]) /\ wk[w].pc = "commit"
           /\ wk'[w].pc = "done" /\ wk'[w].outcome # "crashed") =>
            /\ wk'[w].outcome = "failed"
            /\ wk'[w].updates = 1
            /\ rows'[wk[w].row].status = "failed"]_vars

(* C17 witness: the invocation for the notification of the unknown user    *)
(* returned after storing failed                                           *)
C17_Witness ==
  \E w \in Workers, i \in 1..Len(rows) :
    /\ wk[w].pc = "done" /\ wk[w].outcome = "failed" /\ wk[w].updates = 1
    /\ Len(rows) = 1
    /\ rows[i].status = "failed" /\ rows[i].user_uuid \notin DOMAIN Directory

(* C18: a claim returns the oldest of the pending rows that no other       *)
(* invocation holds, returns none exactly when there is no such row, and   *)
(* the row it returns is pending.                                          *)
C18_FifoClaim ==
  [][\A w \in Workers :
       (/\ wk[w].pc \in {"idle", "done"} /\ wk'[w] # wk[w]
        /\ wk'[w].outcome # "raised") =>
         LET free == {i \in PendingRows : Holders(i) \ {w} = {}}
         IN  IF free = {}
             THEN wk'[w].pc = "done" /\ wk'[w].outcome = "noop" /\ wk'[w].row = 0
             ELSE /\ wk'[w].pc = "resolve"
                  /\ wk'[w].row \in free
                  /\ \A j \in free : wk'[w].row <= j
                  /\ rows[wk'[w].row].status = "pending"
                  /\ wk'[w].notification = rows[wk'[w].row]]_vars

(* C18 witness: one claim had two unlocked pending rows to choose from and *)
(* holds the older one; the next claim passed over it and holds the newer  *)
C18_Witness ==
  \E w \in Workers, v \in Workers :
    /\ wk[w].pc = "resolve" /\ wk[w].row = 1 /\ wk[w].unlocked = {1, 2}
    /\ wk[v].pc = "resolve" /\ wk[v].row = 2 /\ wk[v].skipped = {1}
    /\ wk[v].unlocked = {2}

(* the user of the invocation has a non-empty address for the channel *)
HasAddress(rec, channel) ==
  /\ rec.notification.user_uuid \in DOMAIN Directory
  /\ SettingsOf(rec).notification_channels[channel] \notin {Absent, ""}

(* C19: a send call on a switched-off channel the user has an address for, *)
(* with the directory answering, returns without a transport call; the     *)
(* invocation leaves the loop with status sent (after a single call when   *)
(* that channel was the first selected) and stores sent.                   *)
C19_DisabledCountsAsDelivered ==
  /\ [][\A w \in Workers :
          (/\ wk[w].pc = "send"
           /\ wk'[w].log = Append(wk[w].log, wk[w].channel_types[wk[w].ci])
           /\ wk[w].channel_types[wk[w].ci] \in DisabledChannels
           /\ HasAddress(wk[w], wk[w].channel_types[wk[w].ci])
           /\ wk'[w].last \notin {"temporary_failure", "user_not_found"}) =>
            /\ wk'[w].last = "ok_disabled"
            /\ ~wk'[w].transport_called
            /\ wk'[w].succeeded
            /\ wk'[w].pc = "update"
            /\ wk'[w].notification.status = "sent"
            /\ wk[w].log = << >> => Len(wk'[w].log) = 1]_vars
  /\ [][\A w \in Workers :
          (/\ wk[w].pc = "commit" /\ wk[w].last = "ok_disabled"
           /\ wk'[w].pc = "done" /\ wk'[w].outcome # "crashed") =>
            /\ wk'[w].outcome = "sent"
            /\ rows'[wk[w].row].status = "sent"]_vars

(* C19 witness: one send call, on the switched-off channel telegram, and   *)
(* the notification is sent                                                *)
C19_Witness ==
  \E w \in Workers :
    /\ wk[w].pc = "update" /\ wk[w].last = "ok_disabled"
    /\ wk[w].log = <<"telegram">>
    /\ HasAddress(wk[w], "telegram")
    /\ wk[w].notification.status = "sent"

(* C20: the create step of a request appends one row, with the payload's   *)
(* id and status pending whatever status the payload carried, changes no   *)
(* other row, and returns status pending with was_created = true.          *)
C20_CreatedPending ==
  [][\A c \in Clients :
       /\ (cl[c].pc = "create" /\ cl'[c].pc = "commit") =>
            /\ Len(rows') = Len(rows) + 1
            /\ \A i \in 1..Len(rows) : rows'[i] = rows[i]
            /\ rows'[Len(rows')].uuid = cl[c].payload.uuid
            /\ rows'[Len(rows')].status = "pending"
            /\ cl'[c].row = Len(rows')
       /\ (cl[c].pc = "commit" /\ cl'[c].pc = "done") =>
            /\ rows' = rows
            /\ rows[cl[c].row].status = "pending"
            /\ cl'[c].result =
                 NotificationStatusDTO(cl[c].payload.uuid, "pending", TRUE)]_vars

(* C20 witness: a request whose payload carried status failed created its  *)
(* row; the row is pending and the result says pending                     *)
C20_Witness ==
  \E c \in Clients, i \in 1..Len(rows) :
    /\ cl[c].pc = "done" /\ cl[c].result.was_created
    /\ cl[c].payload.status = "failed"
    /\ cl[c].result.status = "pending"
    /\ rows[i].uuid = cl[c].payload.uuid
    /\ rows[i].user_uuid = cl[c].payload.user_uuid
    /\ rows[i].status = "pending"

(* C21 as stated: a create for an id that already has a row fails and      *)
(* leaves the table as it was.                                             *)
C21_CreateRejectsDuplicates ==
  [][\A c \in Clients :
       (/\ cl[c].pc = "create" /\ cl'[c] # cl[c]
        /\ Exists(cl[c].payload.uuid)) =>
         /\ rows' = rows
         /\ cl'[c].pc = "raised"]_vars

(* C22 as stated, for the updates the dispatch makes: an update writes the *)
(* title, text, type and status of the notification into exactly one row,  *)
(* the row of that id, adds no row and changes no other row.               *)
C22_UpdateExactlyThatRow ==
  [][\A w \in Workers :
       (/\ wk[w].pc = "commit"
        /\ wk'[w].pc = "done" /\ wk'[w].outcome # "crashed") =>
         LET n == wk[w].notification
         IN  /\ Len(rows') = Len(rows)
             /\ \E i \in 1..Len(rows) :
                  /\ rows[i].uuid = n.uuid
                  /\ rows'[i].title = n.title /\ rows'[i].text = n.text
                  /\ rows'[i].type = n.type /\ rows'[i].status = n.status
                  /\ \A j \in 1..Len(rows) : j # i => rows'[j] = rows[j]]_vars

(* C23: a claim that finds no unlocked pending row ends the invocation at  *)
(* once: no lookup, no send call, no update, the table and the deliveries  *)
(* as they were, and a normal return.                                      *)
C23_NoPendingNoOp ==
  /\ [](\A w \in Workers :
          wk[w].outcome = "noop" =>
            /\ wk[w].pc = "done" /\ wk[w].row = 0
            /\ wk[w].log = << >> /\ wk[w].last = "none"
            /\ wk[w].channel_types = << >> /\ wk[w].updates = 0)
  /\ [][\A w \in Workers :
          (/\ wk[w].pc \in {"idle", "done"} /\ wk'[w] # wk[w]
           /\ wk'[w].outcome # "raised"
           /\ {i \in PendingRows : Holders(i) \ {w} = {}} = {}) =>
            /\ wk'[w].pc = "done" /\ wk'[w].outcome = "noop"
            /\ rows' = rows
            /\ delivered' = delivered]_vars

(* C23 witness: the table has rows, none of them pending, and an           *)
(* invocation returned without work                                        *)
C23_Witness ==
  \E w \in Workers :
    /\ wk[w].pc = "done" /\ wk[w].outcome = "noop" /\ wk[w].updates = 0
    /\ Len(rows) = 2 /\ PendingRows = {}

(* C24 as stated: a send call that reached the transport either returned   *)
(* or failed with CouldntSendNotification, with no other error kind.       *)
C24_TransportErrorsNormalized ==
  \A w \in Workers :
    wk[w].transport_called =>
      wk[w].last \in {"ok", "couldnt_send_notification"}

(* C25: a finished request is answered 201 exactly when its result has     *)
(* was_created = true and 200 exactly when it has was_created = false, and *)
(* the body is the result: id, status, was_created.                        *)
C25_ResponseCode ==
  \A c \in Clients :
    cl[c].pc = "done" =>
      /\ cl[c].response.status_code = 201 <=> cl[c].result.was_created
      /\ cl[c].response.status_code = 200 <=> ~cl[c].result.was_created
      /\ cl[c].response.data.uuid = cl[c].result.uuid
      /\ cl[c].response.data.status = cl[c].result.status
      /\ cl[c].response.data.was_created = cl[c].result.was_created

(* C25 witness: one request answered 201 and a later one for the same id   *)
(* answered 200                                                            *)
C25_Witness ==
  \E c \in Clients, d \in Clients :
    /\ cl[c].pc = "done" /\ cl[d].pc = "done"
    /\ cl[c].payload.uuid = cl[d].payload.uuid
    /\ cl[c].response.status_code = 201 /\ cl[c].response.data.was_created
    /\ cl[d].response.status_code = 200 /\ ~cl[d].response.data.was_created
    /\ cl[d].response.data.status = "sent"

(* C26: once a send call has returned, the invocation is out of the loop   *)
(* with status sent, the successful call is its last call and the k-th on  *)
(* its channel for a success on attempt k, no later step makes a send      *)
(* call, and it returns after the one update, which stores sent.           *)
C26_StopOnFirstSuccess ==
  /\ [](\A w \in Workers :
          wk[w].succeeded =>
            /\ wk[w].pc \in {"update", "commit"}
            /\ wk[w].notification.status = "sent"
            /\ SendSucceeded(wk[w].last)
            /\ wk[w].log[Len(wk[w].log)] = wk[w].channel_types[wk[w].ci]
            /\ SendCalls(wk[w], wk[w].channel_types[wk[w].ci]) = wk[w].attempt + 1
            /\ Len(wk[w].log) = MaxAttempts * (wk[w].ci - 1) + wk[w].attempt + 1)
  /\ [][\A w \in Workers :
          wk[w].succeeded =>
            \/ wk'[w] = wk[w]
            \/ wk'[w].pc = "done" /\ wk'[w].outcome = "crashed"
            \/ /\ wk[w].pc = "update" /\ wk'[w].pc = "commit"
               /\ wk'[w].log = wk[w].log /\ wk'[w].updates = 1
            \/ /\ wk'[w].pc = "done" /\ wk'[w].outcome = "sent"
               /\ wk'[w].updates = 1
               /\ rows'[wk[w].row].status = "sent"]_vars

(* C26 witness: the third call on the first of several channels succeeded  *)
C26_Witness ==
  \E w \in Workers :
    /\ wk[w].succeeded /\ wk[w].ci = 1 /\ wk[w].attempt = 2
    /\ Len(wk[w].log) = 3 /\ Len(wk[w].channel_types) >= 2
    /\ wk[w].last = "ok"

(* C27: a send call that fails, with whatever error, is one failed attempt *)
(* of its channel: the invocation does not raise, it goes on to the next   *)
(* attempt, after the third to the next channel, after the last channel to *)
(* the update with status failed; there it has made three calls on every   *)
(* candidate, and it returns after storing failed.                         *)
C27_AttemptErrorsContained ==
  /\ [][\A w \in Workers :
          (/\ wk[w].pc = "send" /\ wk'[w] # wk[w]
           /\ ~wk'[w].succeeded /\ wk'[w].outcome # "crashed") =>
            /\ wk'[w].outcome = "none"
            /\ wk'[w].log = Append(wk[w].log, wk[w].channel_types[wk[w].ci])
            /\ ErrorKind(wk'[w].last) \in wk'[w].failures
            /\ IF wk[w].attempt + 1 < MaxAttempts
               THEN /\ wk'[w].pc = "send" /\ wk'[w].ci = wk[w].ci
                    /\ wk'[w].attempt = wk[w].attempt + 1
               ELSE IF wk[w].ci < Len(wk[w].channel_types)
               THEN /\ wk'[w].pc = "send" /\ wk'[w].ci = wk[w].ci + 1
                    /\ wk'[w].attempt = 0
               ELSE /\ wk'[w].pc = "update"
                    /\ wk'[w].notification.status = "failed"]_vars
  /\ [](\A w \in Workers :
          (/\ wk[w].pc \in {"update", "commit"}
           /\ wk[w].failures # {} /\ ~wk[w].succeeded) =>
            /\ wk[w].log = Thrice(wk[w].channel_types)
            /\ wk[w].notification.status = "failed")
  /\ [][\A w \in Workers :
          (/\ wk[w].pc = "commit" /\ wk[w].failures # {} /\ ~wk[w].succeeded
           /\ wk'[w].pc = "done" /\ wk'[w].outcome # "crashed") =>
            /\ wk'[w].outcome = "failed"
            /\ rows'[wk[w].row].status = "failed"]_vars

(* C27 witness: every call failed, among them calls that met an OSError of *)
(* the transport, a ValueError and a TemporaryFailure of the directory,    *)
(* all handled by `except Exception`; the notification is failed           *)
C27_Witness ==
  \E w \in Workers :
    /\ wk[w].pc = "update" /\ ~wk[w].succeeded
    /\ {"other_exception", "temporary_failure",
        "couldnt_send_notification"} \subseteq wk[w].failures
    /\ wk[w].last = "value_error"
    /\ Len(wk[w].log) = MaxAttempts * Len(wk[w].channel_types)
    /\ wk[w].notification.status = "failed"

(* the UPDATE of worker w waits: a row it writes is locked by another      *)
(* transaction                                                             *)
BlockedOnUpdate(w) ==
  /\ wk[w].pc = "update"
  /\ RowsWithUuid(wk[w].notification.uuid) \cap LockedByOthers(w) # {}

(* C28 as stated: no worker is ever blocked waiting for a row lock that    *)
(* another worker holds.                                                   *)
C28_NeverBlocked ==
  \A w \in Workers : ~BlockedOnUpdate(w)

(* C29 as stated: the update of an invocation writes the row it claimed    *)
(* and leaves every other row of the table as it was.                      *)
C29_OnlyClaimedRowUpdated ==
  [][\A w \in Workers :
       (InFlight(w) /\ wk'[w] # wk[w]) =>
         \A i \in 1..Len(rows) : i # wk[w].row => rows'[i] = rows[i]]_vars

(* an invocation past the first lookup, for a notification with no type    *)
(* whose user has no channel and no preferred channel                      *)
NothingToTry(rec) ==
  /\ PastLookup(rec)
  /\ rec.notification.type = None
  /\ ConfiguredChannels(SettingsOf(rec)) = {}
  /\ SettingsOf(rec).preferred_notification_channel = None

(* C30: with an empty candidate list the invocation is at the update with  *)
(* status failed and no send call, never in the attempt loop, and it       *)
(* returns after one update that stores failed.                            *)
C30_EmptyCandidateList ==
  /\ [](\A w \in Workers :
          NothingToTry(wk[w]) =>
            /\ wk[w].pc \in {"update", "commit"}
            /\ wk[w].channel_types = << >>
            /\ wk[w].log = << >> /\ wk[w].last = "none"
            /\ wk[w].notification.status = "failed")
  /\ [][\A w \in Workers :
          (/\ NothingToTry(wk[w]) /\ wk[w].pc = "commit"
           /\ wk'[w].pc = "done" /\ wk'[w].outcome # "crashed") =>
            /\ wk'[w].outcome = "failed"
            /\ wk'[w].updates = 1
            /\ rows'[wk[w].row].status = "failed"]_vars

(* C30 witness: the invocation for the untyped notification of u5, who has *)
(* no channel and no preference, returned after storing failed             *)
C30_Witness ==
  \E w \in Workers :
    /\ wk[w].pc = "done" /\ wk[w].outcome = "failed" /\ wk[w].updates = 1
    /\ Len(rows) = 1
    /\ rows[1].status = "failed" /\ rows[1].type = None
    /\ rows[1].user_uuid = "u5"

(* every settings value, up to the addresses: any set of channels with an  *)
(* address, and as preferred channel a type, the list of a type, or none    *)
AllSettings ==
  {UserNotificationsSettings(
     [t \in NotificationType |-> IF t \in chans THEN "a" ELSE Absent], pref) :
     chans \in SUBSET NotificationType,
     pref \in NotificationType \cup ListPreferences \cup {None}}

(* the list has every element once *)
NoDuplicates(types) ==
  \A j \in 1..Len(types), k \in 1..Len(types) : types[j] = types[k] => j = k

(* over every settings value: each list built for a notification with no   *)
(* type has every channel once, the preferred one at the head and nowhere  *)
(* else                                                                    *)
CandidateListsDistinct ==
  \A settings \in AllSettings :
    \A types \in CandidateChannels(None, settings) :
      /\ NoDuplicates(types)
      /\ \A k \in 1..Len(types) :
           types[k] = settings.preferred_notification_channel <=>
             (k = 1 /\ settings.preferred_notification_channel # None)

(* C31: for every settings value, every list built for a notification with *)
(* no type has each channel once, the preferred channel at the head and    *)
(* nowhere else; so the list of a running invocation has no duplicates and *)
(* no channel gets more than three send calls.                             *)
C31_CandidatesDistinct ==
  /\ CandidateListsDistinct
  /\ \A w \in Workers :
       /\ NoDuplicates(wk[w].channel_types)
       /\ \A t \in NotificationType : SendCalls(wk[w], t) <= MaxAttempts

(* C31 witness: a list of three channels with the preferred one at the     *)
(* head, all tried: three calls on each                                    *)
C31_Witness ==
  \E w \in Workers :
    /\ UsesPreference(wk[w]) /\ wk[w].pc = "update"
    /\ Len(wk[w].channel_types) = 3
    /\ wk[w].channel_types[1] = SettingsOf(wk[w]).preferred_notification_channel
    /\ \A k \in 1..3 : SendCalls(wk[w], wk[w].channel_types[k]) = MaxAttempts

(* C32: a send call, with the directory answering, on a channel the user   *)
(* has no address for fails with "user lacks this channel" and makes no    *)
(* transport call, also when the channel is switched off; the no-op        *)
(* success of a switched-off channel is returned only when the address is  *)
(* present.                                                                *)
C32_AddressCheckFirst ==
  [][\A w \in Workers :
       (/\ wk[w].pc = "send"
        /\ wk'[w].log = Append(wk[w].log, wk[w].channel_types[wk[w].ci])
        /\ wk'[w].last \notin {"temporary_failure", "user_not_found"}) =>
         /\ ~HasAddress(wk[w], wk[w].channel_types[wk[w].ci]) =>
              /\ wk'[w].last = "user_doesnt_have_the_channel"
              /\ ~wk'[w].transport_called
              /\ ~wk'[w].succeeded
              /\ wk[w].channel_types[wk[w].ci] \in wk'[w].lacked
         /\ wk'[w].last = "ok_disabled" =>
              /\ HasAddress(wk[w], wk[w].channel_types[wk[w].ci])
              /\ wk[w].channel_types[wk[w].ci] \in DisabledChannels]_vars

(* C32 witness: a call on the switched-off channel telegram, for which the *)
(* user has no address, has failed with "user lacks this channel"          *)
C32_Witness ==
  \E w \in Workers :
    /\ wk[w].pc = "send" /\ wk[w].log # << >>
    /\ wk[w].log[Len(wk[w].log)] = "telegram"
    /\ "telegram" \in DisabledChannels
    /\ ~HasAddress(wk[w], "telegram")
    /\ wk[w].last = "user_doesnt_have_the_channel"
    /\ "telegram" \in wk[w].lacked

(* C33: no step removes a row or changes a row's id (the stored ids only   *)
(* grow, under submit, claim, dispatch and rollback), so a request that    *)
(* found its id in the store and goes on to fetch it still finds it: the   *)
(* fetch never fails with "not found" and answers for that id.             *)
C33_RowsNeverDeleted ==
  /\ [][/\ Len(rows') >= Len(rows)
        /\ \A i \in 1..Len(rows) : rows'[i].uuid = rows[i].uuid]_vars
  /\ [](\A c \in Clients : cl[c].pc = "get" => Exists(cl[c].payload.uuid))
  /\ [][\A c \in Clients :
          (cl[c].pc = "get" /\ cl'[c] # cl[c]) =>
            /\ cl'[c].pc = "done"
            /\ cl'[c].error # "object_not_found_in_repository"
            /\ cl'[c].result.uuid = cl[c].payload.uuid]_vars

(* C33 witness: a request found its id, and fetched it after a dispatch    *)
(* had stored a terminal status, while another dispatch was rolled back    *)
C33_Witness ==
  /\ \E c \in Clients :
       /\ cl[c].pc = "done" /\ ~cl[c].result.was_created
       /\ cl[c].result.status \in {"sent", "failed"}
  /\ \E w \in Workers : wk[w].pc = "done" /\ wk[w].outcome = "crashed"

(* C34: under repeated invocation, if from some point on no invocation     *)
(* crashes and neither the store nor the directory fails, every row that   *)
(* is pending is eventually sent or failed.                                *)
C34_EventuallyTerminal ==
  <>[][~InfrastructureFailure]_vars =>
    \A i \in 1..NumClients :
      (i \in PendingRows)
        ~> (i <= Len(rows) /\ rows[i].status \in {"sent", "failed"})

(* C35 as claimed: with one worker under repeated invocation, if from some *)
(* point on failures hit only dispatches of the first row, a second row    *)
(* that is pending is eventually sent or failed.                           *)
C35_NoHeadOfLineStarvation ==
  <>[][InfrastructureFailure => wk[1].row = 1]_vars =>
    ((2 \in PendingRows)
       ~> (2 <= Len(rows) /\ rows[2].status \in {"sent", "failed"}))

(* C35: with one worker, a claim takes the oldest pending row; a dispatch  *)
(* that is rolled back leaves every row as it was, its own row pending,    *)
(* and the next claim takes that same row again (or an older one whose     *)
(* insert was committed in between); a row changes status only in the      *)
(* commit of the dispatch that claimed its id.  So while the dispatches of *)
(* the oldest pending row fail, no younger row is claimed.                 *)
C35_HeadOfLineBlocking ==
  [][/\ (wk[1].pc \in {"idle", "done"} /\ wk'[1].pc = "resolve") =>
          /\ wk'[1].row = Min(PendingRows)
          /\ \A j \in PendingRows : wk'[1].row <= j
     /\ (InFlight(1) /\ wk'[1].pc = "done"
         /\ wk'[1].outcome \in {"raised", "crashed"}) =>
          /\ rows' = rows
          /\ rows[wk[1].row].status = "pending"
          /\ GetPendingForUpdate(1).row' \in 1..wk[1].row
     /\ (\E j \in 1..Len(rows) : rows'[j].status # rows[j].status) =>
          /\ wk[1].pc = "commit"
          /\ \A j \in 1..Len(rows) :
               rows'[j].status # rows[j].status =>
                 rows[j].uuid = rows[wk[1].row].uuid]_vars

(* C35 witness: the dispatch of the oldest pending row has just been       *)
(* rolled back by a directory failure, after an earlier dispatch of it had *)
(* crashed behind a successful send; a younger row of another id is        *)
(* pending and has not been claimed                                        *)
C35_Witness ==
  /\ wk[1].pc = "done" /\ wk[1].outcome = "raised"
  /\ wk[1].error = "temporary_failure"
  /\ Len(rows) = 2 /\ PendingRows = {1, 2}
  /\ rows[1].uuid # rows[2].uuid
  /\ delivered[rows[1].uuid] >= 1 /\ delivered[rows[2].uuid] = 0
  /\ GetPendingForUpdate(1).row = 1

(* C36: no step of a dispatch invocation adds or removes a row or changes  *)
(* a row other than the claimed one, and on the claimed row it changes the *)
(* status at most: id, user, title, text and type stay as they were.       *)
C36_OnlyStatusChanges ==
  [][\A w \in Workers :
       wk'[w] # wk[w] =>
         /\ Len(rows') = Len(rows)
         /\ \A i \in 1..Len(rows) :
              IF i = wk[w].row
              THEN rows'[i] = [rows[i] EXCEPT !.status = rows'[i].status]
              ELSE rows'[i] = rows[i]]_vars

====
